---- MODULE Spec2Model ----
(***************************************************************************)
(* Login-activity recording and per-user counters of the Django backend.   *)
(*                                                                         *)
(*   core/models.py       User counter fields, LoginActivity, its save()   *)
(*   user/serializers.py  CustomTokenObtainPairSerializer (token endpoint) *)
(*   core/middleware.py   LoginTrackingMiddleware                          *)
(*   user/serializers_dashboard.py  get_user_stats (ranged week/month key) *)
(*                                                                         *)
(* The database holds the user rows and the LoginActivity rows.  Every     *)
(* request handler (process) works on its own in-memory copy of a user row *)
(* and LoginActivity.save() runs in three steps that other handlers can    *)
(* interleave with: the caller loads the user, the row is inserted, the    *)
(* user row is written back.                                               *)
(***************************************************************************)
EXTENDS Integers, Sequences, FiniteSets, TLC

\* ---------------------------------------------------------------- bounds
MaxEvents == 2       \* LoginActivity rows stored in one run
MaxDays == 2         \* days the clock covers, from Saturday 2022-12-31
TicksPerDay == 2     \* clock instants per calendar day
MaxRows == 2         \* LoginActivity rows stored before a chart query
MaxPrev == 5         \* successful logins of the month of 30 days ago
MaxCur == 28         \* successful logins since
MaxIds == 2          \* entries of a user_ids[] query parameter
MaxLogRows == 1      \* LoginActivity rows stored before a cohort request
MaxOps == 1          \* password changes and profile updates of one user

\* ------------------------------------------------------------ universes
Users == {"u1", "u2"}
Procs == {"p1", "p2"}
NoUser == "none"                 \* Python None in a user position
Anonymous == "anonymous"         \* django AnonymousUser
UnknownEmail == "nobody"         \* an email no account has
Emails == Users \cup {UnknownEmail}   \* an account's email is named by its user
Null == -1                       \* a null DateTimeField

\* ------------------------------------------------------------- calendar
\* A clock instant t is a tick; day ordinal 0 is Monday 2018-01-01, so the
\* clock starts on Saturday 2022-12-31 and the next day is Sunday 2023-01-01.
StartTick == 1825 * TicksPerDay
EndTick == StartTick + MaxDays * TicksPerDay - 1

DayOf(t) == t \div TicksPerDay

\* timedelta(days = k) subtracted from an instant
MinusDays(t, k) == t - k * TicksPerDay

IsLeap(y) == (y % 4 = 0 /\ y % 100 # 0) \/ y % 400 = 0

DaysInYear(y) == IF IsLeap(y) THEN 366 ELSE 365

DaysInMonth(y, m) ==
    IF m = 2 THEN (IF IsLeap(y) THEN 29 ELSE 28)
    ELSE IF m \in {4, 6, 9, 11} THEN 30 ELSE 31

RECURSIVE YearDayFrom(_, _)
\* <<year, day of the year counted from 0>> of day ordinal n
YearDayFrom(n, y) ==
    IF n < DaysInYear(y) THEN <<y, n>> ELSE YearDayFrom(n - DaysInYear(y), y + 1)

YearDay(n) == YearDayFrom(n, 2018)

RECURSIVE MonthFrom(_, _, _)
MonthFrom(y, yday, m) ==
    IF yday < DaysInMonth(y, m) THEN m ELSE MonthFrom(y, yday - DaysInMonth(y, m), m + 1)

\* datetime.weekday(): Monday = 0 .. Sunday = 6
Weekday(t) == DayOf(t) % 7

\* strftime('%Y-%U'): year and Sunday-started week number, "YYYY-WW" as YYYYWW
StrftimeYU(t) ==
    LET yd == YearDay(DayOf(t))
        wdaySun == (Weekday(t) + 1) % 7
    IN yd[1] * 100 + ((yd[2] + 7 - wdaySun) \div 7)

\* strftime('%Y-%m'): "YYYY-MM" as YYYYMM
StrftimeYm(t) ==
    LET yd == YearDay(DayOf(t))
    IN yd[1] * 100 + MonthFrom(yd[1], yd[2], 1)

\* ------------------------------------------------------ JSON counter maps
Get(m, k) == IF k \in DOMAIN m THEN m[k] ELSE 0

Put(m, k, v) == [x \in (DOMAIN m) \cup {k} |-> IF x = k THEN v ELSE m[x]]

RECURSIVE SumOver(_, _)
SumOver(m, ks) ==
    IF ks = {} THEN 0
    ELSE LET k == CHOOSE x \in ks : TRUE IN m[k] + SumOver(m, ks \ {k})

SumValues(m) == SumOver(m, DOMAIN m)

EmptyMap == [x \in {} |-> 0]

\* -------------------------------------------------------------- state
VARIABLES
    now,      \* timezone.now()
    users,    \* stored User rows: the four counter fields
    events,   \* stored LoginActivity rows, in insertion order
    pc,       \* per handler: "idle", "created" (object built), "inserted"
    mem,      \* per handler: its in-memory copy of the user row
    cur,      \* per handler: the LoginActivity being saved
    resp,     \* the last response of the token endpoint
    race,     \* history: the stored row when two successful saves began to overlap
    out       \* the last answer of a statistics or chart query

vars == <<now, users, events, pc, mem, cur, resp, race, out>>

NewUser ==
    [login_count |-> 0, last_login_timestamp |-> Null,
     weekly_logins |-> EmptyMap, monthly_logins |-> EmptyMap]

NoCall ==
    [user |-> NoUser, success |-> FALSE, timestamp |-> Null, caller |-> "none",
     pk |-> 0, email |-> NoUser, pwok |-> FALSE, rows |-> 0]

NoResp == [status |-> 0, rows |-> 0, email |-> NoUser, pwok |-> FALSE]

NoRace == [user |-> NoUser, row |-> NewUser, saves |-> 0, weeks |-> {}, months |-> {}]

NoOut == [kind |-> "none"]

Init ==
    /\ now = StartTick
    /\ users = [u \in Users |-> NewUser]
    /\ events = <<>>
    /\ pc = [p \in Procs |-> "idle"]
    /\ mem = [p \in Procs |-> NewUser]
    /\ cur = [p \in Procs |-> NoCall]
    /\ resp = NoResp
    /\ race = NoRace
    /\ out = NoOut

\* ------------------------------------------------ LoginActivity and save()
\* the fields of the LoginActivity model class
LoginActivityFields == {"user", "timestamp", "ip_address", "user_agent", "success"}

\* LoginActivity.user is a ForeignKey declared without null=True
UserNullable == FALSE

\* Model.__init__ rejects a keyword that is not a field of the class (TypeError)
InitRaises(kwargs) == kwargs \ LoginActivityFields # {}

DirectKwargs == {"user", "ip_address", "user_agent", "success", "timestamp"}

SerializerKwargs == {"user", "attempted_username", "ip_address", "user_agent", "success"}

\* the INSERT fails on a null user_id (IntegrityError)
InsertRaises(user) == user = NoUser /\ ~UserNullable

\* the guard without its success test
UpdatesStatsAnyOutcome(is_new, success) == is_new

\* 'if is_new and self.success'
UpdatesStats(is_new, success) == is_new /\ success

\* week_start = current_time - timedelta(days=current_time.weekday());
\* week_key = week_start.strftime('%Y-%U')
SaveWeekKey(current_time) == StrftimeYU(MinusDays(current_time, Weekday(current_time)))

\* month_key = current_time.strftime('%Y-%m')
SaveMonthKey(current_time) == StrftimeYm(current_time)

\* data[key] = data.get(key, 0) + 1
Bump(data, key) == Put(data, key, Get(data, key) + 1)

\* the in-memory user after save() has assigned its four counter fields
\* (login_count holds the expression F('login_count') + 1, not a number)
AssignStats(m, timestamp, current_time) ==
    [m EXCEPT !.last_login_timestamp = timestamp,
              !.weekly_logins = Bump(m.weekly_logins, SaveWeekKey(current_time)),
              !.monthly_logins = Bump(m.monthly_logins, SaveMonthKey(current_time))]

\* the row written with login_count read from the in-memory copy and
\* incremented in Python instead of by the database
UserSaveReadModifyWrite(stored, m) ==
    [login_count |-> m.login_count + 1,
     last_login_timestamp |-> m.last_login_timestamp,
     weekly_logins |-> m.weekly_logins,
     monthly_logins |-> m.monthly_logins]

\* self.user.save(): one UPDATE of the whole row; the F expression is
\* evaluated by the database on the stored value, the other fields are
\* written from the in-memory copy
UserSave(stored, m) ==
    [login_count |-> stored.login_count + 1,
     last_login_timestamp |-> m.last_login_timestamp,
     weekly_logins |-> m.weekly_logins,
     monthly_logins |-> m.monthly_logins]

InFlight(p) == pc[p] # "idle"

Quiescent == \A p \in Procs : pc[p] = "idle"

\* rows stored or about to be stored
Pending == Len(events) + Cardinality({q \in Procs : pc[q] = "created" /\ cur[q].user # NoUser})

\* a second successful save for user u starts while another one is under way
Overlaps(p, u, success) ==
    /\ success
    /\ u \in Users
    /\ \E q \in Procs \ {p} : InFlight(q) /\ cur[q].user = u /\ cur[q].success

RaceAt(p, u, success) ==
    IF Overlaps(p, u, success) THEN [NoRace EXCEPT !.user = u, !.row = users[u]] ELSE NoRace

RaceSaved(u, current_time) ==
    IF race.user = u
    THEN [race EXCEPT !.saves = @ + 1,
                      !.weeks = @ \cup {SaveWeekKey(current_time)},
                      !.months = @ \cup {SaveMonthKey(current_time)}]
    ELSE race

NewCall(u, success, caller, email, pwok) ==
    [user |-> u, success |-> success, timestamp |-> Null, caller |-> caller,
     pk |-> 0, email |-> email, pwok |-> pwok, rows |-> 0]

\* what the token endpoint answers: 200 with the token pair, 400 for
\* fail('no_active_account'), 500 when the view raised
TokenResponse(c, raised) ==
    [status |-> IF raised THEN 500 ELSE IF c.success THEN 200 ELSE 400,
     rows |-> c.rows, email |-> c.email, pwok |-> c.pwok]

Finish(c, raised) == IF c.caller = "token" THEN TokenResponse(c, raised) ELSE resp

\* LoginActivity.objects.create(user=u, ..., success=s) by a caller that has
\* just loaded u: the object is built, nothing is stored yet
Create(p, u, success) ==
    /\ pc[p] = "idle"
    /\ Pending < MaxEvents
    /\ pc' = [pc EXCEPT ![p] = "created"]
    /\ mem' = [mem EXCEPT ![p] = IF u \in Users THEN users[u] ELSE NewUser]
    /\ cur' = [cur EXCEPT ![p] = NewCall(u, success, "direct", NoUser, FALSE)]
    /\ race' = RaceAt(p, u, success)
    /\ UNCHANGED <<now, users, events, resp, out>>

\* save(), first part: is_new = self.pk is None; super().save() stamps the
\* row (auto_now_add) and inserts it
Insert(p) ==
    /\ pc[p] = "created"
    /\ LET c == cur[p]
           is_new == c.pk = 0
       IN IF InsertRaises(c.user)
          THEN /\ pc' = [pc EXCEPT ![p] = "idle"]
               /\ resp' = Finish(c, TRUE)
               /\ cur' = [cur EXCEPT ![p] = NoCall]
               /\ mem' = [mem EXCEPT ![p] = NewUser]
               /\ UNCHANGED events
          ELSE LET row == [user |-> c.user, timestamp |-> now, success |-> c.success]
                   c2 == [c EXCEPT !.pk = Len(events) + 1,
                                   !.timestamp = now, !.rows = c.rows + 1]
               IN /\ events' = Append(events, row)
                  /\ IF UpdatesStats(is_new, c.success)
                     THEN /\ pc' = [pc EXCEPT ![p] = "inserted"]
                          /\ cur' = [cur EXCEPT ![p] = c2]
                          /\ UNCHANGED <<resp, mem>>
                     ELSE /\ pc' = [pc EXCEPT ![p] = "idle"]
                          /\ resp' = Finish(c2, FALSE)
                          /\ cur' = [cur EXCEPT ![p] = NoCall]
                          /\ mem' = [mem EXCEPT ![p] = NewUser]
    /\ UNCHANGED <<now, users, race, out>>

\* save(), second part: the statistics block, ending in self.user.save();
\* the request ends and its in-memory objects are dropped
SaveUser(p) ==
    /\ pc[p] = "inserted"
    /\ LET c == cur[p]
           m2 == AssignStats(mem[p], c.timestamp, now)
       IN /\ users' = [users EXCEPT ![c.user] = UserSave(users[c.user], m2)]
          /\ resp' = Finish(c, FALSE)
          /\ race' = RaceSaved(c.user, now)
    /\ mem' = [mem EXCEPT ![p] = NewUser]
    /\ cur' = [cur EXCEPT ![p] = NoCall]
    /\ pc' = [pc EXCEPT ![p] = "idle"]
    /\ UNCHANGED <<now, events, out>>

\* ------------------------------------------------------- token endpoint
\* authenticate(): the user whose email and password match, else None
Authenticate(email, pwok) == IF email \in Users /\ pwok THEN email ELSE NoUser

\* CustomTokenObtainPairSerializer.validate with _create_login_activity:
\* no user -> _create_login_activity(None, False) then fail('no_active_account');
\* a user   -> token pair, then _create_login_activity(user, True)
TokenRequest(p, email, pwok) ==
    /\ pc[p] = "idle"
    /\ Pending < MaxEvents
    /\ LET user == Authenticate(email, pwok)
           success == user # NoUser
           c == NewCall(user, success, "token", email, pwok)
       IN IF InitRaises(SerializerKwargs)
          THEN /\ resp' = Finish(c, TRUE)
               /\ UNCHANGED <<pc, mem, cur, race>>
          ELSE /\ pc' = [pc EXCEPT ![p] = "created"]
               /\ mem' = [mem EXCEPT ![p] = IF user \in Users THEN users[user] ELSE NewUser]
               /\ cur' = [cur EXCEPT ![p] = c]
               /\ race' = RaceAt(p, user, success)
               /\ UNCHANGED resp
    /\ UNCHANGED <<now, users, events, out>>

\* LoginTrackingMiddleware.__call__ on a path matching ^/api/token/?$ :
\* the response is produced first, then _track_login_activity records it
\* for request.user; whatever it raises is swallowed
MiddlewareTrack(p, user, status) ==
    /\ pc[p] = "idle"
    /\ Pending < MaxEvents
    /\ LET is_authenticated == user \in Users
           is_successful == status = 200 /\ is_authenticated
       IN IF user \in Users /\ ~InitRaises(DirectKwargs)
          THEN /\ pc' = [pc EXCEPT ![p] = "created"]
               /\ mem' = [mem EXCEPT ![p] = users[user]]
               /\ cur' = [cur EXCEPT ![p] = NewCall(user, is_successful, "direct", NoUser, FALSE)]
               /\ race' = RaceAt(p, user, is_successful)
          ELSE UNCHANGED <<pc, mem, cur, race>>
    /\ UNCHANGED <<now, users, events, resp, out>>

\* time passes
Tick ==
    /\ now < EndTick
    /\ now' = now + 1
    /\ UNCHANGED <<users, events, pc, mem, cur, resp, race, out>>

Next ==
    \/ \E p \in Procs, u \in Users \cup {NoUser}, s \in BOOLEAN : Create(p, u, s)
    \/ \E p \in Procs : Insert(p)
    \/ \E p \in Procs : SaveUser(p)
    \/ \E p \in Procs, e \in Emails, ok \in BOOLEAN : TokenRequest(p, e, ok)
    \/ \E p \in Procs, u \in Users \cup {NoUser, Anonymous}, st \in {200, 401} :
          MiddlewareTrack(p, u, st)
    \/ Tick

Spec == Init /\ [][Next]_vars

\* ------------------------------------------- Python float arithmetic
\* int(((a - b) / b) * 100) is evaluated in IEEE-754 double precision: the
\* quotient is rounded to 53 significant bits, the product by 100 is
\* rounded again, and int() drops the fraction.  A float is a record
\* [m, e]: 53 bits, most significant first, and the exponent of the first.
MantissaBits == 53

RECURSIVE Pow2(_)
Pow2(k) ==
    IF k = 0 THEN 1
    ELSE IF k % 2 = 0 THEN LET h == Pow2(k \div 2) IN h * h
    ELSE 2 * Pow2(k - 1)

RECURSIVE PowMod2(_, _)
\* 2^k modulo p
PowMod2(k, p) ==
    IF k = 0 THEN 1 % p
    ELSE IF k % 2 = 0 THEN LET h == PowMod2(k \div 2, p) IN (h * h) % p
    ELSE (2 * PowMod2(k - 1, p)) % p

\* number of binary digits of n (0 for 0), n < 2^30
BitLen(n) == CHOOSE k \in 0..30 : Pow2(k) > n /\ (k = 0 \/ Pow2(k - 1) <= n)

\* the w lowest binary digits of n, most significant first
FixedBits(n, w) == [i \in 1..w |-> (n \div Pow2(w - i)) % 2]

\* the binary digits of n, most significant first (empty for 0)
IntBits(n) == FixedBits(n, BitLen(n))

RECURSIVE BitsToInt(_)
BitsToInt(bits) ==
    IF bits = <<>> THEN 0
    ELSE IF Len(bits) = 1 THEN bits[1]
    ELSE LET h == Len(bits) \div 2
         IN BitsToInt(SubSeq(bits, 1, h)) * Pow2(Len(bits) - h)
            + BitsToInt(SubSeq(bits, h + 1, Len(bits)))

\* the i-th binary digit of r / p after the point (0 <= r < p), by long division
FracBit(r, p, i) == IF 2 * ((r * PowMod2(i - 1, p)) % p) >= p THEN 1 ELSE 0

\* the remainder of that long division after n digits
FracRem(r, p, n) == (r * PowMod2(n, p)) % p

\* number of zero digits of r / p (0 < r < p) after the binary point
LeadingZeros(r, p) ==
    CHOOSE z \in 0..30 : FracBit(r, p, z + 1) = 1 /\ \A j \in 1..z : FracBit(r, p, j) = 0

\* bits + 1 on the same width; <<bits, carry out>>
IncBits(bits) ==
    IF \A i \in 1..Len(bits) : bits[i] = 1
    THEN <<[i \in 1..Len(bits) |-> 0], 1>>
    ELSE LET j == CHOOSE k \in 1..Len(bits) :
                     bits[k] = 0 /\ \A i \in (k + 1)..Len(bits) : bits[i] = 1
         IN <<[i \in 1..Len(bits) |-> IF i < j THEN bits[i] ELSE IF i = j THEN 1 ELSE 0], 0>>

\* round to nearest, ties to even
RoundFloat(m, e, guard, sticky) ==
    IF guard = 1 /\ (sticky \/ m[Len(m)] = 1)
    THEN LET up == IncBits(m)
         IN IF up[2] = 1
            THEN [m |-> <<1>> \o SubSeq(up[1], 1, Len(m) - 1), e |-> e + 1]
            ELSE [m |-> up[1], e |-> e]
    ELSE [m |-> m, e |-> e]

\* a / p for integers a >= 1, p >= 1
FloatDiv(a, p) ==
    LET ib == IntBits(a \div p)
        r0 == a % p
    IN IF ib # <<>>
       THEN LET n == MantissaBits - Len(ib)
            IN RoundFloat(ib \o [i \in 1..n |-> FracBit(r0, p, i)], Len(ib) - 1,
                          FracBit(r0, p, n + 1), FracRem(r0, p, n + 1) # 0)
       ELSE LET z == LeadingZeros(r0, p)
            IN RoundFloat([i \in 1..MantissaBits |-> FracBit(r0, p, z + i)], 0 - (z + 1),
                          FracBit(r0, p, z + MantissaBits + 1),
                          FracRem(r0, p, z + MantissaBits + 1) # 0)

\* the digits of bits * k, computed on three limbs of at most 18 bits
MulBits(bits, k) ==
    LET lo == BitsToInt(SubSeq(bits, 37, 53)) * k
        mid == BitsToInt(SubSeq(bits, 19, 36)) * k + lo \div Pow2(17)
        hi == BitsToInt(SubSeq(bits, 1, 18)) * k + mid \div Pow2(18)
    IN IntBits(hi) \o FixedBits(mid % Pow2(18), 18) \o FixedBits(lo % Pow2(17), 17)

\* x * k for a float x and an integer 1 <= k < 2^12
FloatMul(x, k) ==
    LET prod == MulBits(x.m, k)
        extra == Len(prod) - MantissaBits
    IN IF extra = 0 THEN [m |-> prod, e |-> x.e]
       ELSE RoundFloat(SubSeq(prod, 1, MantissaBits), x.e + extra,
                       prod[MantissaBits + 1],
                       \E i \in (MantissaBits + 2)..Len(prod) : prod[i] = 1)

\* int(x) for a float 0 <= x < 2^30
FloatToInt(x) == IF x.e < 0 THEN 0 ELSE BitsToInt(SubSeq(x.m, 1, x.e + 1))

\* int((difference / base) * 100), base >= 1
PercentChange(difference, base) ==
    IF difference = 0 THEN 0
    ELSE LET a == IF difference < 0 THEN 0 - difference ELSE difference
             v == FloatToInt(FloatMul(FloatDiv(a, base), 100))
         IN IF difference < 0 THEN 0 - v ELSE v

\* ------------------------------------------------------ get_user_stats
\* ranged mode: week_key = activity.timestamp.strftime('%Y-%U')
RangedWeekKey(timestamp) == StrftimeYU(timestamp)

\* ranged mode: month_key = activity.timestamp.strftime('%Y-%m')
RangedMonthKey(timestamp) == StrftimeYm(timestamp)

\* `if start_date and end_date`: both query parameters were given
Ranged(start_date, end_date) == start_date # Null /\ end_date # Null

\* BETWEEN SYMMETRIC: the ends in either order
InRangeSymmetric(timestamp, start_date, end_date) ==
    \/ start_date <= timestamp /\ timestamp <= end_date
    \/ end_date <= timestamp /\ timestamp <= start_date

\* timestamp__range = (start_date, end_date): SQL BETWEEN, both ends included
InRange(timestamp, start_date, end_date) == start_date <= timestamp /\ timestamp <= end_date

\* (a - b).days of a timedelta: whole days, rounded down
TimedeltaDays(a, b) ==
    IF a >= b THEN (a - b) \div TicksPerDay
    ELSE 0 - ((b - a + TicksPerDay - 1) \div TicksPerDay)

\* Python's floor division n // 2
FloorHalf(n) == IF n >= 0 THEN n \div 2 ELSE 0 - ((1 - n) \div 2)

\* timedelta(days = k) added to an instant
PlusDays(t, k) == t + k * TicksPerDay

\* the user's successful rows of the range
Activities(user, start_date, end_date) ==
    {i \in 1..Len(events) :
        /\ events[i].user = user
        /\ InRange(events[i].timestamp, start_date, end_date)
        /\ events[i].success}

\* weekly_data: the rows counted under the '%Y-%U' key of their timestamp
WeeklyData(rows) ==
    [k \in {RangedWeekKey(events[i].timestamp) : i \in rows} |->
        Cardinality({i \in rows : RangedWeekKey(events[i].timestamp) = k})]

\* monthly_data: the rows counted under the '%Y-%m' key of their timestamp
MonthlyData(rows) ==
    [k \in {RangedMonthKey(events[i].timestamp) : i \in rows} |->
        Cardinality({i \in rows : RangedMonthKey(events[i].timestamp) = k})]

\* activities.order_by('-timestamp').first().timestamp, or None
LastLoginOf(rows) ==
    IF rows = {} THEN Null
    ELSE CHOOSE t \in {events[i].timestamp : i \in rows} :
             \A i \in rows : events[i].timestamp <= t

\* the instant the ranged trend splits the period at
TrendMidpoint(start_date, end_date) ==
    PlusDays(start_date, FloorHalf(TimedeltaDays(end_date, start_date)))

\* second half against first half of the period
RangedLoginTrend(rows, start_date, end_date) ==
    IF rows = {} THEN 0
    ELSE LET midpoint == TrendMidpoint(start_date, end_date)
             first_half == Cardinality({i \in rows : events[i].timestamp < midpoint})
             second_half == Cardinality({i \in rows : events[i].timestamp >= midpoint})
         IN IF first_half = 0
            THEN (IF second_half > 0 THEN 100 ELSE 0)
            ELSE PercentChange(second_half - first_half, first_half)

\* calculate_login_trend(user) on the stored row
CalculateLoginTrend(row, current_time) ==
    IF row.monthly_logins = EmptyMap THEN 0
    ELSE LET current_logins == Get(row.monthly_logins, StrftimeYm(current_time))
             prev_logins == Get(row.monthly_logins, StrftimeYm(MinusDays(current_time, 30)))
         IN IF prev_logins = 0
            THEN (IF current_logins > 0 THEN 100 ELSE 0)
            ELSE PercentChange(current_logins - prev_logins, prev_logins)

\* get_user_stats(user, start_date, end_date)
GetUserStats(user, start_date, end_date) ==
    IF Ranged(start_date, end_date)
    THEN LET activities == Activities(user, start_date, end_date)
         IN [total_logins |-> Cardinality(activities),
             last_login |-> LastLoginOf(activities),
             weekly_data |-> WeeklyData(activities),
             monthly_data |-> MonthlyData(activities),
             login_trend |-> RangedLoginTrend(activities, start_date, end_date)]
    ELSE [total_logins |-> users[user].login_count,
          last_login |-> users[user].last_login_timestamp,
          weekly_data |-> users[user].weekly_logins,
          monthly_data |-> users[user].monthly_logins,
          login_trend |-> CalculateLoginTrend(users[user], now)]

\* ------------------------------------------------------- chart builders
RECURSIVE DayInMonthFrom(_, _, _)
\* day of the month, from 1
DayInMonthFrom(y, yday, m) ==
    IF yday < DaysInMonth(y, m) THEN yday + 1
    ELSE DayInMonthFrom(y, yday - DaysInMonth(y, m), m + 1)

\* date.strftime('%Y-%m-%d') of day ordinal n: "YYYY-MM-DD" as YYYYMMDD
StrftimeYmd(n) ==
    LET yd == YearDay(n)
    IN yd[1] * 10000 + MonthFrom(yd[1], yd[2], 1) * 100 + DayInMonthFrom(yd[1], yd[2], 1)

\* date.strftime('%Y-%m') of day ordinal n
StrftimeYmOfDay(n) == LET yd == YearDay(n) IN yd[1] * 100 + MonthFrom(yd[1], yd[2], 1)

\* TruncDate, TruncWeek (weeks start on Monday), TruncMonth: the day ordinal
\* the timestamp is truncated to
TruncDate(timestamp) == DayOf(timestamp)

TruncWeek(timestamp) == DayOf(timestamp) - Weekday(timestamp)

TruncMonth(timestamp) ==
    LET yd == YearDay(DayOf(timestamp))
    IN DayOf(timestamp) - (DayInMonthFrom(yd[1], yd[2], 1) - 1)

\* start_date / end_date when the caller gave None
DefaultStart(start_date) == IF start_date = Null THEN MinusDays(now, 30) ELSE start_date

DefaultEnd(end_date) == IF end_date = Null THEN now ELSE end_date

\* filter(timestamp__range=(start_date, end_date)): the user filter left out
RowsOfAnyUser(user, start_date, end_date) ==
    {i \in 1..Len(events) : InRange(events[i].timestamp, start_date, end_date)}

\* filter(user=user, timestamp__gte=start_date): no upper end
RowsOfUserOpenEnded(user, start_date, end_date) ==
    {i \in 1..Len(events) : events[i].user = user /\ start_date <= events[i].timestamp}

\* filter(user=user, timestamp__range=(start_date, end_date))
RowsOfUser(user, start_date, end_date) ==
    {i \in 1..Len(events) :
        events[i].user = user /\ InRange(events[i].timestamp, start_date, end_date)}

\* filter(user=users.first(), ...): only one of the users
RowsOfUsersFirstOnly(us, start_date, end_date) ==
    {i \in 1..Len(events) :
        /\ us # {}
        /\ events[i].user = (CHOOSE u \in us : TRUE)
        /\ InRange(events[i].timestamp, start_date, end_date)}

\* filter(user__in=users, timestamp__range=(start_date, end_date))
RowsOfUsers(us, start_date, end_date) ==
    {i \in 1..Len(events) :
        events[i].user \in us /\ InRange(events[i].timestamp, start_date, end_date)}

\* the loop left one day early: while current_date < end_date_date
TrendDaysExclusive(start_date, end_date) ==
    IF DayOf(end_date) > DayOf(start_date) THEN DayOf(end_date) - DayOf(start_date) ELSE 0

\* the number of rounds of `while current_date <= end_date_date`
TrendDays(start_date, end_date) ==
    IF DayOf(end_date) >= DayOf(start_date) THEN DayOf(end_date) - DayOf(start_date) + 1 ELSE 0

\* the while loop over current_date: one label per day from start_date.date()
\* to end_date.date(), the counts looked up in data_map, 0 when absent
TrendSeries(rows, start_date, end_date, suffix) ==
    LET first == DayOf(start_date)
        n == TrendDays(start_date, end_date)
        OnDay(d, success) ==
            Cardinality({i \in rows : TruncDate(events[i].timestamp) = d
                                      /\ events[i].success = success})
    IN [labels |-> [k \in 1..n |-> StrftimeYmd(first + k - 1)],
        datasets |->
          << [label |-> "Successful Logins" \o suffix,
              data |-> [k \in 1..n |-> OnDay(first + k - 1, TRUE)]],
             [label |-> "Failed Logins" \o suffix,
              data |-> [k \in 1..n |-> OnDay(first + k - 1, FALSE)]] >>]

GetLoginTrendsData(user, start_date, end_date) ==
    LET s == DefaultStart(start_date)
        e == DefaultEnd(end_date)
    IN TrendSeries(RowsOfUser(user, s, e), s, e, "")

GetCombinedLoginTrendsData(us, start_date, end_date) ==
    LET s == DefaultStart(start_date)
        e == DefaultEnd(end_date)
    IN TrendSeries(RowsOfUsers(us, s, e), s, e, " (Combined)")

RECURSIVE SortedSeq(_)
\* order_by('period'): the elements of a set of integers, ascending
SortedSeq(S) ==
    IF S = {} THEN <<>>
    ELSE LET lo == CHOOSE x \in S : \A y \in S : x <= y
         IN <<lo>> \o SortedSeq(S \ {lo})

\* weekly buckets below 30 days only: date_range < 30
UsesWeeklyStrict(start_date, end_date) == TimedeltaDays(end_date, start_date) < 30

\* weekly buckets up to 30 days, monthly beyond
UsesWeekly(start_date, end_date) == TimedeltaDays(end_date, start_date) <= 30

\* values('period').annotate(count=Count('id')).order_by('period') over the
\* successful rows, labelled with date_format
ComparisonSeries(rows, start_date, end_date, suffix) ==
    LET weekly == UsesWeekly(start_date, end_date)
        Period(t) == IF weekly THEN TruncWeek(t) ELSE TruncMonth(t)
        Format(d) == IF weekly THEN StrftimeYmd(d) ELSE StrftimeYmOfDay(d)
        good == {i \in rows : events[i].success}
        periods == SortedSeq({Period(events[i].timestamp) : i \in good})
    IN [labels |-> [k \in 1..Len(periods) |-> Format(periods[k])],
        datasets |->
          << [label |-> "Login Count" \o suffix,
              data |-> [k \in 1..Len(periods) |->
                          Cardinality({i \in good : Period(events[i].timestamp) = periods[k]})]] >>]

GetLoginComparisonData(user, start_date, end_date) ==
    LET s == DefaultStart(start_date)
        e == DefaultEnd(end_date)
    IN ComparisonSeries(RowsOfUser(user, s, e), s, e, "")

GetCombinedLoginComparisonData(us, start_date, end_date) ==
    LET s == DefaultStart(start_date)
        e == DefaultEnd(end_date)
    IN ComparisonSeries(RowsOfUsers(us, s, e), s, e, " (Combined)")

\* success_ratio of the distribution: the two counts under fixed labels
SuccessRatio(rows) ==
    [labels |-> <<"Successful", "Failed">>,
     datasets |->
       << [data |-> << Cardinality({i \in rows : events[i].success}),
                       Cardinality({i \in rows : ~events[i].success}) >>] >>]

GetLoginDistributionData(user, start_date, end_date) ==
    [success_ratio |-> SuccessRatio(RowsOfUser(user, DefaultStart(start_date), DefaultEnd(end_date)))]

GetCombinedLoginDistributionData(us, start_date, end_date) ==
    [success_ratio |-> SuccessRatio(RowsOfUsers(us, DefaultStart(start_date), DefaultEnd(end_date)))]

\* ---------------------------------------- statistics and chart queries
\* The queries are answered on a database that earlier logins have filled.
\* Today is Monday 2023-01-02; the dates the callers ask for are Friday
\* 2022-12-02, Saturday 2022-12-03 (30 days ago) and today.
ChartNow == 1827 * TicksPerDay + 1

DateParams == {1796, 1797, 1827}

\* timezone.make_aware(datetime.strptime(s, '%Y-%m-%d')): midnight of the day
ParseDate(d) == d * TicksPerDay

\* a date query parameter after parsing: None or a midnight
DateArgs == {Null} \cup {ParseDate(d) : d \in DateParams}

ChartInstants ==
    {ParseDate(1796), ParseDate(1797) + 1, ParseDate(1827), ChartNow}

ChartRows == [user : Users, timestamp : ChartInstants, success : BOOLEAN]

\* rows are stamped with the time of their insertion, so they are stored in
\* time order
ChartEvents ==
    UNION {{sq \in [1..n -> ChartRows] :
              \A i \in 1..n, j \in 1..n : i < j => sq[i].timestamp <= sq[j].timestamp}
           : n \in 0..MaxRows}

RECURSIVE Replay(_, _)
\* the User rows after the first k rows have been saved one after the other
Replay(rows, k) ==
    IF k = 0 THEN [u \in Users |-> NewUser]
    ELSE LET before == Replay(rows, k - 1)
             r == rows[k]
         IN IF UpdatesStats(TRUE, r.success)
            THEN [before EXCEPT ![r.user] =
                     UserSave(before[r.user],
                              AssignStats(before[r.user], r.timestamp, r.timestamp))]
            ELSE before

ChartInit ==
    /\ now = ChartNow
    /\ events \in ChartEvents
    /\ users = Replay(events, Len(events))
    /\ pc = [p \in Procs |-> "idle"]
    /\ mem = [p \in Procs |-> NewUser]
    /\ cur = [p \in Procs |-> NoCall]
    /\ resp = NoResp
    /\ race = NoRace
    /\ out = NoOut

Answer(kind, who, start_date, end_date, value) ==
    /\ out = NoOut
    /\ out' = [kind |-> kind, who |-> who, start |-> start_date, end |-> end_date,
               value |-> value]
    /\ UNCHANGED <<now, users, events, pc, mem, cur, resp, race>>

\* UserStatsView.get
UserStats(u, sd, ed) == Answer("stats", u, sd, ed, GetUserStats(u, sd, ed))

\* LoginTrendsView.get, own data and combined
LoginTrends(u, sd, ed) == Answer("trends", u, sd, ed, GetLoginTrendsData(u, sd, ed))

CombinedLoginTrends(us, sd, ed) ==
    Answer("combined_trends", us, sd, ed, GetCombinedLoginTrendsData(us, sd, ed))

\* LoginComparisonView.get, own data and combined
LoginComparison(u, sd, ed) ==
    Answer("comparison", u, sd, ed, GetLoginComparisonData(u, sd, ed))

CombinedLoginComparison(us, sd, ed) ==
    Answer("combined_comparison", us, sd, ed, GetCombinedLoginComparisonData(us, sd, ed))

\* LoginDistributionView.get, own data and combined
LoginDistribution(u, sd, ed) ==
    Answer("distribution", u, sd, ed, GetLoginDistributionData(u, sd, ed))

CombinedLoginDistribution(us, sd, ed) ==
    Answer("combined_distribution", us, sd, ed, GetCombinedLoginDistributionData(us, sd, ed))

ChartNext ==
    \/ \E u \in Users, sd \in DateArgs, ed \in DateArgs : UserStats(u, sd, ed)
    \/ \E u \in Users, sd \in DateArgs, ed \in DateArgs : LoginTrends(u, sd, ed)
    \/ \E us \in SUBSET Users, sd \in DateArgs, ed \in DateArgs : CombinedLoginTrends(us, sd, ed)
    \/ \E u \in Users, sd \in DateArgs, ed \in DateArgs : LoginComparison(u, sd, ed)
    \/ \E us \in SUBSET Users, sd \in DateArgs, ed \in DateArgs : CombinedLoginComparison(us, sd, ed)
    \/ \E u \in Users, sd \in DateArgs, ed \in DateArgs : LoginDistribution(u, sd, ed)
    \/ \E us \in SUBSET Users, sd \in DateArgs, ed \in DateArgs : CombinedLoginDistribution(us, sd, ed)

ChartSpec == ChartInit /\ [][ChartNext]_vars

\* ------------------------------------------- statistics over two months
\* One user has logged in p times 30 days ago and c times just now; the
\* statistics are asked for without a range, on Monday 2023-01-02 (30 days
\* ago was in December) or on Tuesday 2023-01-31 (30 days ago was in January).
TrendNows == {ChartNow, ParseDate(1856) + 1}

TrendEvents(u, t, p, c) ==
    [i \in 1..(p + c) |->
        [user |-> u, timestamp |-> IF i <= p THEN MinusDays(t, 30) ELSE t, success |-> TRUE]]

TrendInit ==
    /\ now \in TrendNows
    /\ \E u \in Users, p \in 0..MaxPrev, c \in 0..MaxCur : events = TrendEvents(u, now, p, c)
    /\ users = Replay(events, Len(events))
    /\ pc = [p \in Procs |-> "idle"]
    /\ mem = [p \in Procs |-> NewUser]
    /\ cur = [p \in Procs |-> NoCall]
    /\ resp = NoResp
    /\ race = NoRace
    /\ out = NoOut

TrendNext == \E u \in Users : UserStats(u, Null, Null)

TrendSpec == TrendInit /\ [][TrendNext]_vars

\* -------------------------------------------------- cohorts and access
\* u1 is staff (or superuser), u2 is a regular user; both exist and are
\* authenticated when they send a request.
Staff == {"u1"}

\* the privilege test left out: every authenticated user passes
IsAdminAlways(u) == u \in Users

\* request.user.is_staff or request.user.is_superuser
IsAdmin(u) == u \in Staff

\* a query parameter that was not sent: query_params.get() gives None
NoParam == "<none>"

\* Python truth of an optional string parameter
Truthy(param) == param # NoParam /\ param # ""

RoleArgs == {NoParam, "", "admin", "regular", "manager"}

MeArgs == {NoParam, "true"}

FilterArgs == {NoParam, "all", "admin_only", "regular_users", "active_only", "me", "staff"}

\* entries of user_ids[]: the id of u1, the id of u2, an integer that is no
\* user's id, and a text that is no integer
IdTokens == {"u1", "u2", "404", "abc"}

UserIdsArgs == UNION {[1..n -> IdTokens] : n \in 0..MaxIds}

\* int(uid) raises ValueError
IntRaises(uid) == uid = "abc"

\* User.objects.filter(id__in=user_ids): each matching user once
UsersWithIds(user_ids) == {u \in Users : \E k \in 1..Len(user_ids) : user_ids[k] = u}

\* the ids are taken as found when every listed id has a user
AllIdsExist(user_ids) == \A k \in 1..Len(user_ids) : user_ids[k] \in Users

\* len(users) != len(user_ids): the rows found against the entries sent
IdsNotFound(user_ids) == Cardinality(UsersWithIds(user_ids)) # Len(user_ids)

\* User.objects.filter(...) by role
RoleUsers(role) == IF role = "admin" THEN Staff ELSE Users \ Staff

NoValue == <<>>

Denied(code, error) == [status |-> code, error |-> error, mode |-> "none", cohort |-> {}]

\* the branch that decides whose data a chart endpoint answers with:
\* role first, then user_ids, else the requester's own data
ChartCohort(requester, role, user_ids) ==
    IF Truthy(role)
    THEN IF ~IsAdmin(requester) THEN Denied(403, "Admin permissions required to filter by role.")
         ELSE IF role \notin {"admin", "regular"} THEN Denied(400, "Invalid role.")
         ELSE [status |-> 200, error |-> "", mode |-> "role", cohort |-> RoleUsers(role)]
    ELSE IF user_ids # <<>>
    THEN IF ~IsAdmin(requester)
         THEN Denied(403, "Admin permissions required to filter by user IDs.")
         ELSE IF \E k \in 1..Len(user_ids) : IntRaises(user_ids[k])
         THEN Denied(400, "Invalid user_ids format. Must be integers.")
         ELSE IF IdsNotFound(user_ids) THEN Denied(400, "One or more user IDs not found.")
         ELSE [status |-> 200, error |-> "", mode |-> "user_ids", cohort |-> UsersWithIds(user_ids)]
    ELSE [status |-> 200, error |-> "", mode |-> "own", cohort |-> {requester}]

\* the body of a chart endpoint's answer
ChartValue(endpoint, c, start_date, end_date) ==
    IF c.status # 200 THEN NoValue
    ELSE IF c.mode = "own"
    THEN LET u == CHOOSE x \in c.cohort : TRUE
         IN IF endpoint = "trends" THEN GetLoginTrendsData(u, start_date, end_date)
            ELSE IF endpoint = "comparison" THEN GetLoginComparisonData(u, start_date, end_date)
            ELSE GetLoginDistributionData(u, start_date, end_date)
    ELSE IF endpoint = "trends" THEN GetCombinedLoginTrendsData(c.cohort, start_date, end_date)
    ELSE IF endpoint = "comparison" THEN GetCombinedLoginComparisonData(c.cohort, start_date, end_date)
    ELSE GetCombinedLoginDistributionData(c.cohort, start_date, end_date)

\* LoginTrendsView.get, LoginComparisonView.get, LoginDistributionView.get:
\* the three read role and user_ids[] and nothing else of the cohort parameters
ChartResponse(endpoint, requester, role, user_ids) ==
    LET c == ChartCohort(requester, role, user_ids)
    IN [status |-> c.status, error |-> c.error, mode |-> c.mode, cohort |-> c.cohort,
        value |-> ChartValue(endpoint, c, Null, Null)]

\* the parameters of get_admin_dashboard_data(role=None, me=None)
DashboardDataParams == {"role", "me"}

\* a call with a keyword the function does not have raises TypeError
CallRaises(kwargs) == kwargs \ DashboardDataParams # {}

\* (me and me.lower() == 'true') or filter_type == 'me'
SelfOnly(me, filter_type) == (Truthy(me) /\ me = "true") \/ filter_type = "me"

\* the keywords the view passes in each of its three branches
DashboardKwargs(me, user_ids, filter_type) ==
    IF SelfOnly(me, filter_type) THEN {"me", "start_date", "end_date"}
    ELSE IF user_ids # <<>> THEN {"user_ids", "start_date", "end_date"}
    ELSE {"role", "filter_type", "start_date", "end_date"}

\* get_admin_dashboard_data(role, me): me, then role, else all users
GetAdminDashboardData(role, me) ==
    LET cohort == IF me # NoUser THEN {me}
                  ELSE IF role \in {"admin", "regular"} THEN RoleUsers(role)
                  ELSE Users
    IN [total_users |-> Cardinality(cohort),
        total_logins |-> Cardinality({i \in 1..Len(events) :
                                         events[i].user \in cohort /\ events[i].success})]

\* AdminDashboardView.get behind IsStaffOrSuperUser
AdminDashboardResponse(requester, role, me, user_ids, filter_type) ==
    IF ~IsAdmin(requester) THEN [status |-> 403, error |-> "permission", value |-> NoValue]
    ELSE IF Truthy(role) /\ role \notin {"admin", "regular"}
    THEN [status |-> 400, error |-> "Invalid role.", value |-> NoValue]
    ELSE IF Truthy(filter_type)
            /\ filter_type \notin {"all", "admin_only", "regular_users", "active_only", "me"}
    THEN [status |-> 400, error |-> "Invalid filter.", value |-> NoValue]
    ELSE IF \E k \in 1..Len(user_ids) : IntRaises(user_ids[k])
    THEN [status |-> 400, error |-> "Invalid user_ids format. Must be integers.",
          value |-> NoValue]
    ELSE IF user_ids # <<>> /\ IdsNotFound(user_ids)
    THEN [status |-> 400, error |-> "One or more user IDs not found.", value |-> NoValue]
    ELSE IF CallRaises(DashboardKwargs(me, user_ids, filter_type))
    THEN [status |-> 500, error |-> "TypeError", value |-> NoValue]
    ELSE [status |-> 200, error |-> "",
          value |-> GetAdminDashboardData(role,
                       IF SelfOnly(me, filter_type) THEN requester ELSE NoUser)]

\* access to one's own data only: the staff test left out
CheckUserAccessOwnOnly(requester, target) == requester = target

\* check_user_access(request, target_user_id)
CheckUserAccess(requester, target) == requester = target \/ IsAdmin(requester)

\* UserSpecificStatsView.get
UserSpecificStatsResponse(requester, target) ==
    IF ~CheckUserAccess(requester, target)
    THEN [status |-> 403, error |-> "permission", value |-> NoValue]
    ELSE IF target \notin Users THEN [status |-> 404, error |-> "not found", value |-> NoValue]
    ELSE [status |-> 200, error |-> "", value |-> GetUserStats(target, Null, Null)]

\* ------------------------------------------ requests with cohort parameters
\* The requests are answered on a database that earlier logins have filled.
AccessRows == [user : Users, timestamp : {ChartNow}, success : BOOLEAN]

AccessEvents == UNION {[1..n -> AccessRows] : n \in 0..MaxLogRows}

AccessInit ==
    /\ now = ChartNow
    /\ events \in AccessEvents
    /\ users = Replay(events, Len(events))
    /\ pc = [p \in Procs |-> "idle"]
    /\ mem = [p \in Procs |-> NewUser]
    /\ cur = [p \in Procs |-> NoCall]
    /\ resp = NoResp
    /\ race = NoRace
    /\ out = NoOut

NoAgain == [status |-> 0]

\* a request to a chart endpoint by an authenticated user
ChartRequest(endpoint) ==
    /\ out = NoOut
    /\ \E requester \in Users, role \in RoleArgs, me \in MeArgs, user_ids \in UserIdsArgs :
          out' = [kind |-> "chart_api",
                  req |-> [endpoint |-> endpoint, requester |-> requester, role |-> role,
                           me |-> me, user_ids |-> user_ids],
                  resp |-> ChartResponse(endpoint, requester, role, user_ids),
                  again |-> NoAgain]
    /\ UNCHANGED <<now, users, events, pc, mem, cur, resp, race>>

TrendsRequest == ChartRequest("trends")

ComparisonRequest == ChartRequest("comparison")

DistributionRequest == ChartRequest("distribution")

\* a request to the admin dashboard
AdminDashboardRequest ==
    /\ out = NoOut
    /\ \E requester \in Users, role \in RoleArgs, me \in MeArgs, user_ids \in UserIdsArgs,
          filter_type \in FilterArgs :
          out' = [kind |-> "dashboard_api",
                  req |-> [requester |-> requester, role |-> role, me |-> me,
                           user_ids |-> user_ids, filter |-> filter_type],
                  resp |-> AdminDashboardResponse(requester, role, me, user_ids, filter_type),
                  again |-> NoAgain]
    /\ UNCHANGED <<now, users, events, pc, mem, cur, resp, race>>

\* a request to the per-user statistics
UserSpecificStatsRequest ==
    /\ out = NoOut
    /\ \E requester \in Users, target \in Users \cup {"404"} :
          out' = [kind |-> "user_stats_api",
                  req |-> [requester |-> requester, target |-> target],
                  resp |-> UserSpecificStatsResponse(requester, target),
                  again |-> NoAgain]
    /\ UNCHANGED <<now, users, events, pc, mem, cur, resp, race>>

Awaited == [status |-> 1]

\* after a chart request, a login attempt of another user is recorded
OtherLogin(v, success) ==
    /\ out.kind = "chart_api"
    /\ out.again = NoAgain
    /\ v # out.req.requester
    /\ events' = Append(events, [user |-> v, timestamp |-> now, success |-> success])
    /\ users' = Replay(events', Len(events'))
    /\ out' = [out EXCEPT !.again = Awaited]
    /\ UNCHANGED <<now, pc, mem, cur, resp, race>>

\* and the requester sends the same chart request once more
RepeatRequest ==
    /\ out.kind = "chart_api"
    /\ out.again = Awaited
    /\ out' = [out EXCEPT !.again =
                  ChartResponse(out.req.endpoint, out.req.requester, out.req.role,
                                out.req.user_ids)]
    /\ UNCHANGED <<now, users, events, pc, mem, cur, resp, race>>

AccessNext ==
    \/ TrendsRequest
    \/ ComparisonRequest
    \/ DistributionRequest
    \/ AdminDashboardRequest
    \/ UserSpecificStatsRequest
    \/ \E v \in Users, s \in BOOLEAN : OtherLogin(v, s)
    \/ RepeatRequest

AccessSpec == AccessInit /\ [][AccessNext]_vars

\* ------------------------------------- the whole user row and its writers
\* Besides the four counters the row holds the fields that the account
\* operations write.  Every writer loads the row into memory and later
\* writes the whole row back with save().
CounterFields == {"login_count", "last_login_timestamp", "weekly_logins", "monthly_logins"}

NonCounterFields ==
    {"email_verified", "verification_token", "password_reset_token", "password", "name"}

\* a new account: not verified, no tokens, first password, first name
WholeUser ==
    [login_count |-> 0, last_login_timestamp |-> Null,
     weekly_logins |-> EmptyMap, monthly_logins |-> EmptyMap,
     email_verified |-> FALSE, verification_token |-> Null,
     password_reset_token |-> Null, password |-> 0, name |-> 0]

\* the token secrets.token_urlsafe(32) returns
Token == 1

Operations ==
    {"generate_verification_token", "verify_email", "generate_password_reset_token",
     "reset_password", "update"}

\* the view finds the user the operation is for: verify_email and
\* reset_password look the user up by the stored token
CanLoad(op, row) ==
    IF op = "verify_email" THEN row.verification_token # Null
    ELSE IF op = "reset_password" THEN row.password_reset_token # Null /\ row.password < MaxOps
    ELSE IF op = "update" THEN row.name < MaxOps
    ELSE TRUE

\* the assignments of the operation on the in-memory user, before its save()
ApplyOperation(op, m) ==
    IF op = "generate_verification_token" THEN [m EXCEPT !.verification_token = Token]
    ELSE IF op = "verify_email"
    THEN [m EXCEPT !.email_verified = TRUE, !.verification_token = Null]
    ELSE IF op = "generate_password_reset_token" THEN [m EXCEPT !.password_reset_token = Token]
    ELSE IF op = "reset_password"
    THEN [m EXCEPT !.password = @ + 1, !.password_reset_token = Null]
    ELSE [m EXCEPT !.name = @ + 1]

\* self.save() of an account operation: one UPDATE of every field from the
\* in-memory copy
SaveWholeRow(stored, m) == m

\* self.user.save() of LoginActivity.save(): the counters as UserSave writes
\* them, every other field from the in-memory copy
LoginUserSave(stored, m) ==
    [f \in DOMAIN m |-> IF f \in CounterFields THEN UserSave(stored, m)[f] ELSE m[f]]

\* ----------------------------------- logins beside account operations
\* the users whose account is operated on
AccountUsers == {"u1"}

\* the request that records logins and the request that runs account operations
LoginProcs == {"p1"}
OperationProcs == {"p2"}

\* 'is_new = self.pk is None' taken as true on every save
IsNewOnEverySave(pk) == TRUE

\* 'is_new = self.pk is None'; pk 0 is an instance that was never stored
IsNew(pk) == pk = 0

ProfileInit ==
    /\ now = StartTick
    /\ users = [u \in Users |-> WholeUser]
    /\ events = <<>>
    /\ pc = [p \in Procs |-> "idle"]
    /\ mem = [p \in Procs |-> WholeUser]
    /\ cur = [p \in Procs |-> NoCall]
    /\ resp = NoResp
    /\ race = NoRace
    /\ out = NoOut

\* the caller holds the user it loaded and builds a LoginActivity for it
LoginCreate(p, u, success) ==
    /\ pc[p] = "idle"
    /\ Pending < MaxEvents
    /\ pc' = [pc EXCEPT ![p] = "created"]
    /\ mem' = [mem EXCEPT ![p] = users[u]]
    /\ cur' = [cur EXCEPT ![p] = NewCall(u, success, "direct", NoUser, FALSE)]
    /\ UNCHANGED <<now, users, events, resp, race, out>>

\* LoginActivity.save(): is_new, then super().save() inserts the row
LoginInsert(p) ==
    /\ pc[p] = "created"
    /\ LET c == cur[p]
           is_new == IsNew(c.pk)
           row == [user |-> c.user, timestamp |-> now, success |-> c.success]
       IN /\ events' = Append(events, row)
          /\ IF UpdatesStats(is_new, c.success)
             THEN /\ pc' = [pc EXCEPT ![p] = "inserted"]
                  /\ cur' = [cur EXCEPT ![p] = [c EXCEPT !.pk = Len(events) + 1,
                                                         !.timestamp = now]]
                  /\ UNCHANGED mem
             ELSE /\ pc' = [pc EXCEPT ![p] = "idle"]
                  /\ cur' = [cur EXCEPT ![p] = NoCall]
                  /\ mem' = [mem EXCEPT ![p] = WholeUser]
    /\ UNCHANGED <<now, users, resp, race, out>>

\* LoginActivity.save(): the four assignments and self.user.save()
LoginSaveUser(p) ==
    /\ pc[p] = "inserted"
    /\ LET c == cur[p]
           m2 == AssignStats(mem[p], c.timestamp, now)
       IN users' = [users EXCEPT ![c.user] = LoginUserSave(users[c.user], m2)]
    /\ mem' = [mem EXCEPT ![p] = WholeUser]
    /\ cur' = [cur EXCEPT ![p] = NoCall]
    /\ pc' = [pc EXCEPT ![p] = "idle"]
    /\ UNCHANGED <<now, events, resp, race, out>>

\* a stored event is saved again, here after its timestamp was assigned:
\* super().save() updates the row, is_new is False
Resave(i, timestamp) ==
    /\ i \in 1..Len(events)
    /\ LET e == events[i]
           is_new == IsNew(i)
       IN /\ events' = [events EXCEPT ![i].timestamp = timestamp]
          /\ users' = IF UpdatesStats(is_new, e.success)
                      THEN [users EXCEPT ![e.user] =
                               LoginUserSave(users[e.user],
                                             AssignStats(users[e.user], timestamp, now))]
                      ELSE users
    /\ UNCHANGED <<now, pc, mem, cur, resp, race, out>>

\* the view of an account operation has loaded its user
OperationLoad(p, u, op) ==
    /\ pc[p] = "idle"
    /\ CanLoad(op, users[u])
    /\ pc' = [pc EXCEPT ![p] = "loaded"]
    /\ mem' = [mem EXCEPT ![p] = users[u]]
    /\ cur' = [cur EXCEPT ![p] = [NoCall EXCEPT !.user = u, !.caller = op]]
    /\ UNCHANGED <<now, users, events, resp, race, out>>

\* the operation assigns its fields and calls save()
OperationSave(p) ==
    /\ pc[p] = "loaded"
    /\ LET c == cur[p]
           m2 == ApplyOperation(c.caller, mem[p])
       IN users' = [users EXCEPT ![c.user] = SaveWholeRow(users[c.user], m2)]
    /\ mem' = [mem EXCEPT ![p] = WholeUser]
    /\ cur' = [cur EXCEPT ![p] = NoCall]
    /\ pc' = [pc EXCEPT ![p] = "idle"]
    /\ UNCHANGED <<now, events, resp, race, out>>

ProfileNext ==
    \/ \E p \in LoginProcs, u \in AccountUsers, success \in BOOLEAN : LoginCreate(p, u, success)
    \/ \E p \in LoginProcs : LoginInsert(p)
    \/ \E p \in LoginProcs : LoginSaveUser(p)
    \/ \E i \in 1..MaxEvents, t \in {now, MinusDays(now, 1)} : Resave(i, t)
    \/ \E p \in OperationProcs, u \in AccountUsers, op \in Operations : OperationLoad(p, u, op)
    \/ \E p \in OperationProcs : OperationSave(p)

ProfileSpec == ProfileInit /\ [][ProfileNext]_vars

\* ------------------------------------------------------------ properties
SuccessRows(u) == {i \in 1..Len(events) : events[i].user = u /\ events[i].success}

FailedRows(u) == {i \in 1..Len(events) : events[i].user = u /\ ~events[i].success}

MaxTimestamp(rows) ==
    IF rows = {} THEN Null
    ELSE LET i == CHOOSE i \in rows : \A j \in rows : events[j].timestamp <= events[i].timestamp
         IN events[i].timestamp

\* C1: once every record_attempt call has completed, each user's stored
\* login_count is the number of stored successful rows of that user.
LoginCountMatchesRows ==
    Quiescent => \A u \in Users : users[u].login_count = Cardinality(SuccessRows(u))

\* two completed calls for one user, a successful and a failed one
LoginCountWitness ==
    /\ Quiescent
    /\ \E u \in Users : /\ users[u].login_count = 1
                        /\ Cardinality(SuccessRows(u)) = 1
                        /\ Cardinality(FailedRows(u)) = 1

\* C2: two successful saves for the same user that overlapped (both had
\* loaded the user before either wrote it back) leave the stored login_count
\* exactly 2 above its value at the moment the overlap began.
RaceAddsTwoToLoginCount ==
    (Quiescent /\ race.saves = 2) =>
        users[race.user].login_count = race.row.login_count + 2

\* both overlapping saves have written the user back
RaceFinishedWitness ==
    /\ Quiescent
    /\ race.saves = 2
    /\ users[race.user].login_count = 2

\* C3: after two overlapping successful saves for one user that used the
\* same week key and the same month key, the stored value under each key
\* is exactly 2 above its value at the moment the overlap began.
RaceAddsTwoToPeriodCounters ==
    (Quiescent /\ race.saves = 2 /\ Cardinality(race.weeks) = 1
               /\ Cardinality(race.months) = 1) =>
        /\ \A k \in race.weeks :
              Get(users[race.user].weekly_logins, k) = Get(race.row.weekly_logins, k) + 2
        /\ \A k \in race.months :
              Get(users[race.user].monthly_logins, k) = Get(race.row.monthly_logins, k) + 2

\* C4: once every call has completed, the values of weekly_logins and the
\* values of monthly_logins each add up to login_count, for every user.
PeriodSumsEqualLoginCount ==
    Quiescent => \A u \in Users :
        /\ SumValues(users[u].weekly_logins) = users[u].login_count
        /\ SumValues(users[u].monthly_logins) = users[u].login_count

\* C5: the save of a successful row increments, in the copy of the maps it
\* started from, the '%Y-%U' key and the '%Y-%m' key of the row's timestamp,
\* so the keys that ranged get_user_stats derives from the row are stored
\* with a count of at least 1.
SaveIncrementsTimestampKeys ==
    [][\A p \in Procs : SaveUser(p) =>
         LET c == cur[p]
             wk == RangedWeekKey(c.timestamp)
             mk == RangedMonthKey(c.timestamp)
         IN /\ users'[c.user].weekly_logins = Bump(mem[p].weekly_logins, wk)
            /\ users'[c.user].monthly_logins = Bump(mem[p].monthly_logins, mk)
            /\ Get(users'[c.user].weekly_logins, wk) >= 1
            /\ Get(users'[c.user].monthly_logins, mk) >= 1]_vars

\* C6: no step of a call with success = false changes a stored user row,
\* with or without a user on the event.
FailedAttemptLeavesCounters ==
    [][\A p \in Procs :
         (/\ pc'[p] # pc[p]
          /\ ~(IF pc[p] = "idle" THEN cur'[p].success ELSE cur[p].success))
         => users' = users]_vars

\* a failed row is stored for a user who has a successful login
FailedAttemptWitness ==
    /\ Quiescent
    /\ \E u \in Users : /\ FailedRows(u) # {}
                        /\ users[u].login_count = 1
                        /\ users[u].last_login_timestamp # Null

\* C7: once every call has completed, last_login_timestamp is null for a
\* user without successful rows and otherwise the greatest timestamp of the
\* user's successful rows.
LastLoginIsLatestSuccess ==
    Quiescent => \A u \in Users :
        users[u].last_login_timestamp = MaxTimestamp(SuccessRows(u))

\* C8: every answered request to the token endpoint has stored exactly one
\* LoginActivity row.
TokenRequestStoresOneRow ==
    resp.status # 0 => resp.rows = 1

\* C9: a login with an email that no account has is answered with the
\* invalid-credentials rejection and has stored one row with no user,
\* the submitted email as attempted_username and success = false.
UnknownEmailIsRecorded ==
    (resp.status # 0 /\ resp.email = UnknownEmail) =>
        /\ resp.status = 400
        /\ resp.rows = 1
        /\ \E i \in 1..Len(events) :
              /\ events[i].user = NoUser
              /\ ~events[i].success
              /\ "attempted_username" \in DOMAIN events[i]
              /\ events[i].attempted_username = resp.email

\* C10: a login with a known email and a wrong password has stored a row
\* with user = the account of that email and success = false.
WrongPasswordIsRecordedForUser ==
    (resp.status # 0 /\ resp.email \in Users /\ ~resp.pwok) =>
        /\ resp.rows = 1
        /\ FailedRows(resp.email) # {}

\* C11: a token request with valid credentials is answered with the token
\* pair (200) even when storing the LoginActivity or updating the counters
\* raised: the recorder's failure is never the login's failure.
RecorderFailureKeepsLogin ==
    (resp.status # 0 /\ resp.email \in Users /\ resp.pwok) => resp.status = 200

\* the user's rows with the given outcome whose timestamp is on calendar day d
RowsOnDay(user, d, success) ==
    {i \in 1..Len(events) :
        events[i].user = user /\ events[i].success = success /\ DayOf(events[i].timestamp) = d}

\* C12: a statistics request with start_date = end_date = today, for a user
\* with n >= 1 successful logins today, answers total_logins = n and
\* weekly_data and monthly_data with exactly the current week's and the
\* current month's key, each with value n.
TodayStatsCountToday ==
    (out.kind = "stats" /\ out.start = ParseDate(DayOf(now)) /\ out.end = out.start) =>
        LET n == Cardinality(RowsOnDay(out.who, DayOf(now), TRUE))
        IN n >= 1 =>
              /\ out.value.total_logins = n
              /\ out.value.weekly_data = [k \in {RangedWeekKey(now)} |-> n]
              /\ out.value.monthly_data = [k \in {RangedMonthKey(now)} |-> n]

\* the percentage change from base to base + difference, truncated toward
\* zero, in exact arithmetic
TruncatedPercent(difference, base) ==
    IF difference >= 0 THEN (difference * 100) \div base
    ELSE 0 - (((0 - difference) * 100) \div base)

\* C13: in ranged mode login_trend compares the user's successful rows of
\* the range strictly before the midpoint of [start, end] with those at or
\* after it: 100 when only the second half has rows, 0 when neither has,
\* otherwise the truncated percentage change; for every range length.
RangedTrendSplitsAtMidpoint ==
    (out.kind = "stats" /\ Ranged(out.start, out.end)) =>
        LET rows == Activities(out.who, out.start, out.end)
            first == Cardinality({i \in rows : 2 * events[i].timestamp < out.start + out.end})
            second == Cardinality({i \in rows : 2 * events[i].timestamp >= out.start + out.end})
        IN out.value.login_trend =
              IF first = 0 THEN (IF second > 0 THEN 100 ELSE 0)
              ELSE TruncatedPercent(second - first, first)

\* C14: without a range login_trend is the percentage change from the
\* monthly_logins bucket of the month of the instant 30 days ago to the
\* bucket of the current month, truncated to an integer; with a prior
\* bucket of 0 it is 100 when the current bucket is positive and 0 otherwise.
NoRangeTrendIsTruncatedChange ==
    (out.kind = "stats" /\ ~Ranged(out.start, out.end)) =>
        LET buckets == users[out.who].monthly_logins
            current == Get(buckets, StrftimeYm(now))
            prior == Get(buckets, StrftimeYm(MinusDays(now, 30)))
        IN out.value.login_trend =
              IF prior = 0 THEN (IF current > 0 THEN 100 ELSE 0)
              ELSE TruncatedPercent(current - prior, prior)

\* the window a query has used: the given ends, or the defaults of the builders
WindowStart == IF out.kind = "stats" THEN out.start ELSE DefaultStart(out.start)

WindowEnd == IF out.kind = "stats" THEN out.end ELSE DefaultEnd(out.end)

\* the query was answered on a window whose end is before its start
Reversed ==
    /\ out.kind # "none"
    /\ out.kind = "stats" => Ranged(out.start, out.end)
    /\ WindowEnd < WindowStart

EmptyStats ==
    /\ out.value.total_logins = 0
    /\ out.value.weekly_data = EmptyMap
    /\ out.value.monthly_data = EmptyMap
    /\ out.value.last_login = Null
    /\ out.value.login_trend = 0

EmptyTrends ==
    /\ out.value.labels = <<>>
    /\ Len(out.value.datasets) = 2
    /\ \A k \in 1..2 : out.value.datasets[k].data = <<>>

\* C15 as stated: on a reversed range the statistics are all zero, empty or
\* null, the trend builder answers no labels and two empty datasets, the
\* comparison builder no buckets and the distribution builder [0, 0].
ReversedRangeIsEmpty ==
    Reversed =>
        /\ out.kind = "stats" => EmptyStats
        /\ out.kind \in {"trends", "combined_trends"} => EmptyTrends
        /\ out.kind \in {"comparison", "combined_comparison"} => out.value.labels = <<>>
        /\ out.kind \in {"distribution", "combined_distribution"} =>
              out.value.success_ratio.datasets[1].data = <<0, 0>>

\* C15: as above, except that the trend builder answers no labels only when
\* the end is on an earlier calendar day than the start; when both are
\* instants of one day it answers that day as its only label, with the
\* value 0 in both datasets.
ReversedRangeHasNoEvents ==
    Reversed =>
        /\ out.kind = "stats" => EmptyStats
        /\ out.kind \in {"trends", "combined_trends"} =>
              IF DayOf(WindowEnd) < DayOf(WindowStart) THEN EmptyTrends
              ELSE /\ out.value.labels = <<StrftimeYmd(DayOf(WindowStart))>>
                   /\ Len(out.value.datasets) = 2
                   /\ \A k \in 1..2 : out.value.datasets[k].data = <<0>>
        /\ out.kind \in {"comparison", "combined_comparison"} => out.value.labels = <<>>
        /\ out.kind \in {"distribution", "combined_distribution"} =>
              out.value.success_ratio.datasets[1].data = <<0, 0>>

\* a trend query on a reversed window within one day, by a user who has rows
ReversedRangeWitness ==
    /\ Reversed
    /\ out.kind = "trends"
    /\ DayOf(WindowEnd) = DayOf(WindowStart)
    /\ \E i \in 1..Len(events) : events[i].user = out.who

\* the users a chart query was about
QueryUsers == IF out.kind \in {"trends", "comparison", "distribution"} THEN {out.who} ELSE out.who

\* the queried users' rows with the given outcome on calendar day d
UsersRowsOnDay(d, success) == UNION {RowsOnDay(u, d, success) : u \in QueryUsers}

\* C16: for a window with start.date() <= end.date() the trend builder,
\* single-user and combined, answers (end.date() - start.date()).days + 1
\* labels, the consecutive days from start.date() to end.date() in ascending
\* order; each of its two datasets has one value per label, 0 for a day
\* without events.
TrendLabelsCoverWindow ==
    (out.kind \in {"trends", "combined_trends"} /\ DayOf(WindowStart) <= DayOf(WindowEnd)) =>
        LET first == DayOf(WindowStart)
            n == DayOf(WindowEnd) - first + 1
            labels == out.value.labels
        IN /\ Len(labels) = n
           /\ \A k \in 1..n : labels[k] = StrftimeYmd(first + k - 1)
           /\ \A k \in 1..(n - 1) : labels[k] < labels[k + 1]
           /\ Len(out.value.datasets) = 2
           /\ \A j \in 1..2 :
                 /\ Len(out.value.datasets[j].data) = n
                 /\ \A k \in 1..n :
                       UsersRowsOnDay(first + k - 1, j = 1) = {} =>
                           out.value.datasets[j].data[k] = 0

\* a trend over several days, some with events of the user and some without
TrendLabelsWitness ==
    /\ out.kind \in {"trends", "combined_trends"}
    /\ Len(out.value.labels) > 2
    /\ \E k \in 1..Len(out.value.labels) : out.value.datasets[1].data[k] > 0
    /\ \E k \in 1..Len(out.value.labels) : out.value.datasets[1].data[k] = 0

\* C17: for every label day d of the trend builder's answer the 'Successful
\* Logins' value is the number of the user's successful rows whose timestamp
\* is on calendar day d and the 'Failed Logins' value the number of failed
\* ones, the first and the last day of the window included.
TrendValuesCountWholeDays ==
    out.kind = "trends" =>
        \A k \in 1..Len(out.value.labels) :
            LET d == DayOf(WindowStart) + k - 1
            IN /\ out.value.datasets[1].data[k] = Cardinality(RowsOnDay(out.who, d, TRUE))
               /\ out.value.datasets[2].data[k] = Cardinality(RowsOnDay(out.who, d, FALSE))

RECURSIVE SumSeq(_)
SumSeq(q) == IF q = <<>> THEN 0 ELSE q[1] + SumSeq(Tail(q))

\* the queried users' successful rows inside the window
WindowSuccesses ==
    {i \in 1..Len(events) :
        /\ events[i].user \in QueryUsers
        /\ events[i].success
        /\ WindowStart <= events[i].timestamp
        /\ events[i].timestamp <= WindowEnd}

\* the Monday of the week of an instant, as YYYYMMDD
WeekLabel(t) == StrftimeYmd(CHOOSE d \in (DayOf(t) - 6)..DayOf(t) : d % 7 = 0)

\* C18: the comparison builder puts the successful rows of the window into
\* weekly buckets when (end - start).days <= 30 and into monthly buckets
\* otherwise; no bucket has count 0, the buckets are in ascending order of
\* period and their counts sum to the number of successful rows in the window.
ComparisonBucketsSuccesses ==
    out.kind \in {"comparison", "combined_comparison"} =>
        LET weekly == (WindowEnd - WindowStart) < 31 * TicksPerDay
            Bucket(t) == IF weekly THEN WeekLabel(t) ELSE StrftimeYm(t)
            labels == out.value.labels
            data == out.value.datasets[1].data
        IN /\ Len(data) = Len(labels)
           /\ {labels[k] : k \in 1..Len(labels)} = {Bucket(events[i].timestamp) : i \in WindowSuccesses}
           /\ \A k \in 1..(Len(labels) - 1) : labels[k] < labels[k + 1]
           /\ \A k \in 1..Len(labels) :
                 /\ data[k] > 0
                 /\ data[k] = Cardinality({i \in WindowSuccesses : Bucket(events[i].timestamp) = labels[k]})
           /\ SumSeq(data) = Cardinality(WindowSuccesses)

\* a comparison over exactly 30 days with two weekly buckets
ComparisonWitness ==
    /\ out.kind = "comparison"
    /\ TimedeltaDays(WindowEnd, WindowStart) = 30
    /\ Len(out.value.labels) = 2

\* the rows of user u inside the window, with the given outcome
WindowRows(u, success) ==
    {i \in 1..Len(events) :
        /\ events[i].user = u
        /\ events[i].success = success
        /\ WindowStart <= events[i].timestamp
        /\ events[i].timestamp <= WindowEnd}

\* C19: the distribution builder's success_ratio has exactly the labels
\* 'Successful', 'Failed' in that order and its two counts are the numbers
\* of the user's successful and failed rows in the window, which sum to the
\* number of the user's rows in the window.
DistributionCountsOutcomes ==
    out.kind = "distribution" =>
        LET ratio == out.value.success_ratio
            data == ratio.datasets[1].data
        IN /\ ratio.labels = <<"Successful", "Failed">>
           /\ data = <<Cardinality(WindowRows(out.who, TRUE)), Cardinality(WindowRows(out.who, FALSE))>>
           /\ data[1] + data[2] =
                 Cardinality({i \in 1..Len(events) :
                                 /\ events[i].user = out.who
                                 /\ WindowStart <= events[i].timestamp
                                 /\ events[i].timestamp <= WindowEnd})

\* a distribution with a success and a failure inside the window and a row
\* of the user outside it
DistributionWitness ==
    /\ out.kind = "distribution"
    /\ out.value.success_ratio.datasets[1].data[1] + out.value.success_ratio.datasets[1].data[2] = 1
    /\ Cardinality({i \in 1..Len(events) : events[i].user = out.who}) = 2

\* the count a comparison answer gives for a bucket label, 0 when absent
BucketCount(value, label) ==
    LET ks == {k \in 1..Len(value.labels) : value.labels[k] = label}
    IN IF ks = {} THEN 0 ELSE value.datasets[1].data[CHOOSE k \in ks : TRUE]

FilterUsers(filter_type) ==
    IF filter_type = "admin_only" THEN Staff
    ELSE IF filter_type = "regular_users" THEN Users \ Staff
    ELSE Users

\* the cohort of a dashboard request by precedence: self, then the id list,
\* then role, then filter, else all users
PrecedenceCohort(req) ==
    IF req.me = "true" \/ req.filter = "me" THEN {req.requester}
    ELSE IF req.user_ids # <<>> THEN UsersWithIds(req.user_ids)
    ELSE IF Truthy(req.role) THEN RoleUsers(req.role)
    ELSE IF Truthy(req.filter) THEN FilterUsers(req.filter)
    ELSE Users

\* the request of an administrator whose parameters are all valid
ValidDashboardRequest ==
    /\ out.kind = "dashboard_api"
    /\ IsAdmin(out.req.requester)
    /\ out.req.role \in {NoParam, "admin", "regular"}
    /\ out.req.filter \in FilterArgs \ {"", "staff"}
    /\ AllIdsExist(out.req.user_ids)
    /\ Cardinality(UsersWithIds(out.req.user_ids)) = Len(out.req.user_ids)

\* C21: the admin dashboard answers with total_users and total_logins
\* computed over the cohort that the precedence me / filter=me, user_ids,
\* role, filter, all users selects.
DashboardCohortByPrecedence ==
    ValidDashboardRequest =>
        LET cohort == PrecedenceCohort(out.req)
        IN /\ out.resp.status = 200
           /\ out.resp.value.total_users = Cardinality(cohort)
           /\ out.resp.value.total_logins =
                 Cardinality({i \in 1..Len(events) :
                                 events[i].user \in cohort /\ events[i].success})

\* the answer of a chart endpoint built over the users of an id list
AnswerOverIds(endpoint, user_ids) ==
    ChartValue(endpoint,
               [status |-> 200, error |-> "", mode |-> "user_ids",
                cohort |-> UsersWithIds(user_ids)],
               Null, Null)

\* C22: when an admin sends a valid role together with a non-empty list of
\* existing user ids to a chart endpoint, the answer is built over exactly
\* the listed users.
ChartUserIdsBeatRole ==
    (/\ out.kind = "chart_api"
     /\ IsAdmin(out.req.requester)
     /\ out.req.role \in {"admin", "regular"}
     /\ out.req.user_ids # <<>>
     /\ AllIdsExist(out.req.user_ids)
     /\ Cardinality(UsersWithIds(out.req.user_ids)) = Len(out.req.user_ids)) =>
        /\ out.resp.status = 200
        /\ out.resp.value = AnswerOverIds(out.req.endpoint, out.req.user_ids)

OwnAnswer(endpoint, requester) ==
    ChartValue(endpoint,
               [status |-> 200, error |-> "", mode |-> "own", cohort |-> {requester}],
               Null, Null)

\* C24: a request to a chart endpoint that carries me=true and comes from a
\* requester who is neither staff nor superuser is never answered 403 and
\* is answered with the requester's own data, whatever role and user_ids
\* accompany it.
SelfQueryNeedsNoPrivilege ==
    (/\ out.kind = "chart_api"
     /\ out.req.requester \notin Staff
     /\ out.req.me = "true") =>
        /\ out.resp.status = 200
        /\ out.resp.value = OwnAnswer(out.req.endpoint, out.req.requester)

\* an admin's request in which only user_ids[] is sent, with at least one entry
OnlyUserIdsSent ==
    /\ out.kind \in {"chart_api", "dashboard_api"}
    /\ out.req.requester \in Staff
    /\ out.req.role = NoParam
    /\ out.req.me = NoParam
    /\ out.kind = "dashboard_api" => out.req.filter = NoParam
    /\ out.req.user_ids # <<>>

\* C25: an admin's request with a non-empty user_ids list is rejected with
\* 400 exactly when some id is no integer or is no user's id, in the latter
\* case with a 'not found' message; a list of existing users' ids is
\* accepted, also when it names a user more than once.
UserIdsRejectedWhenUnknown ==
    OnlyUserIdsSent =>
        LET ids == out.req.user_ids
            unparsed == \E k \in 1..Len(ids) : IntRaises(ids[k])
        IN /\ out.resp.status = 400 <=> (unparsed \/ ~AllIdsExist(ids))
           /\ (~unparsed /\ ~AllIdsExist(ids)) =>
                 out.resp.error = "One or more user IDs not found."

\* C26: the per-user statistics endpoint answers 200 with the target's
\* statistics exactly when the target exists and the requester is the target
\* or is staff or superuser; a requester who is neither gets 403 for every
\* other id, existing or not; a staff or superuser requester gets 404 for an
\* id without a user.
PerUserStatsAccess ==
    out.kind = "user_stats_api" =>
        LET r == out.req.requester
            t == out.req.target
        IN /\ out.resp.status = 200 <=> (t \in Users /\ (r = t \/ r \in Staff))
           /\ out.resp.status = 200 =>
                 /\ out.resp.value.total_logins = users[t].login_count
                 /\ out.resp.value.last_login = users[t].last_login_timestamp
                 /\ out.resp.value.weekly_data = users[t].weekly_logins
                 /\ out.resp.value.monthly_data = users[t].monthly_logins
           /\ (r \notin Staff /\ t # r) => out.resp.status = 403
           /\ (r \in Staff /\ t \notin Users) => out.resp.status = 404

\* a regular user asked for the statistics of an id that no user has
PerUserStatsWitness ==
    /\ out.kind = "user_stats_api"
    /\ out.req.requester \notin Staff
    /\ out.req.target \notin Users
    /\ out.resp.status = 403
    /\ events # <<>>

Counters == [u \in Users |-> [f \in CounterFields |-> users[u][f]]]

\* the other fields of every stored user
NonCounters == [u \in Users |-> [f \in NonCounterFields |-> users[u][f]]]

\* some account operation performs its save() in this step
OperationSaves == \E p \in Procs : pc[p] = "loaded" /\ pc'[p] = "idle"

\* some login performs its self.user.save() in this step
LoginSaves == \E p \in Procs : pc[p] = "inserted" /\ pc'[p] = "idle"

\* a stored event is saved again in this step
Resaves == Len(events') = Len(events) /\ events' # events

\* C27: the save() of generate_verification_token, verify_email,
\* generate_password_reset_token, reset_password and of a profile update
\* leaves the four counters of every user as they are stored, also when the
\* user was loaded before a successful login and is saved after it.
OtherOperationsKeepCounters == [][OperationSaves => Counters' = Counters]_vars

\* C28: the save of a successful login changes only the four counter fields:
\* the other fields of the stored row, as another operation committed them
\* since the login loaded its user, are the same after the save.
LoginSaveKeepsOtherFields == [][LoginSaves => NonCounters' = NonCounters]_vars

\* C29: saving a stored LoginActivity again, whatever timestamp it was
\* given and however often, changes no stored user.
ResaveKeepsCounters == [][Resaves => users' = users]_vars

\* a successful event whose login was counted holds a timestamp given to it
\* by a later save
ResaveWitness ==
    \E i \in 1..Len(events) :
        /\ events[i].success
        /\ events[i].timestamp # now
        /\ users[events[i].user].login_count >= 1

====
